---- MODULE Spec2Model ----
(***************************************************************************)
(* BusTub buffer-pool resource management:                                 *)
(*   - LRUKReplacer   (src/buffer/lru_k_replacer.cpp)                      *)
(*   - DiskScheduler  (src/storage/disk/disk_scheduler.cpp)                *)
(* Two specifications share this module: ReplacerSpec drives the replacer  *)
(* and leaves the scheduler at its constructed state; SchedulerSpec does   *)
(* the converse.                                                           *)
(***************************************************************************)
EXTENDS Integers, Sequences, FiniteSets, TLC

\* ------------------------------------------------------------------------
\* Bounds of the model
\* ------------------------------------------------------------------------
\* Largest replacer capacity (num_frames) a replacer is constructed with.
MaxFrames == 2
\* Largest k a replacer is constructed with.
MaxK == 3
\* RecordAccess is not called once the logical clock has reached this value.
MaxTimestamp == 4

\* Number of caller threads that can be inside DiskScheduler::Schedule at once.
NumProducers == 2
\* Number of disk requests the callers create in one run.
MaxRequests == 3

\* ------------------------------------------------------------------------
\* Program constants
\* ------------------------------------------------------------------------
\* std::numeric_limits<size_t>::max(); the largest integer TLC represents
\* stands for it (every reachable timestamp is far below it).
kMaxAccessTimestamp == 2147483647
kInfTimestampDist == 2147483647

VARIABLES
    replacer_size_,     \* LRUKReplacer::replacer_size_ (constructor argument)
    k_,                 \* LRUKReplacer::k_ (constructor argument)
    records_,           \* frame id -> Record (timestamps, is_evictable)
    lru_queue_,         \* std::list<frame_id_t>, front first
    current_timestamp_, \* logical clock
    evictable_size_,    \* number of evictable frames, as the code counts it
    status,             \* "running", "aborted" (fatal assertion), "undefined"
    last_call,          \* the last replacer call that returned, and its result
    latch_,             \* LRUKReplacer::latch_: 0 when free, else the thread holding it
    threads,            \* caller thread -> its position inside a replacer call
    snap                \* the replacer state when latch_ was last acquired

lockVars == <<latch_, threads, snap>>

replacerVars == <<replacer_size_, k_, records_, lru_queue_, current_timestamp_,
                  evictable_size_, status, last_call, lockVars>>

VARIABLES
    requests,        \* request id -> DiskRequest (is_write_, page_id_)
    buffers,         \* request id -> contents of the memory data_ points to
    callback_,       \* request id -> state of the request's std::promise<bool>:
                     \* "pending", "true", or "broken" (destroyed unset)
    request_queue_,  \* Channel<std::optional<DiskRequest>>, front first
    scheduling,      \* requests whose caller thread is inside Schedule, before Put
    worker_pc,       \* position of StartWorkerThread
    maybe_req,       \* the worker's local maybe_req
    worker_call,     \* the disk call the worker is at: "ReadPage" / "WritePage"
    in_flight,       \* Disk Manager calls in progress: [thread, req]
    disk_pages,      \* page id -> contents held by the Disk Manager
    dtor_pc,         \* position of ~DiskScheduler
    sched_status,    \* "running"; "aborted" once a fault has propagated;
                     \* "undefined" once a Put on the destroyed queue has
                     \* returned; "crashed" once the process was killed in
                     \* or after such a Put
    enqueue_log,     \* every item put into request_queue_, in Put order
    io_log,          \* request ids in the order their disk call was issued
    resolve_log      \* request ids in the order their promise was set

schedulerVars == <<requests, buffers, callback_, request_queue_, scheduling,
                   worker_pc, maybe_req, worker_call, in_flight,
                   disk_pages, dtor_pc, sched_status, enqueue_log, io_log,
                   resolve_log>>

vars == <<replacerVars, schedulerVars>>

\* ------------------------------------------------------------------------
\* LRUKReplacer
\* ------------------------------------------------------------------------
\* std::optional<frame_id_t>
nullopt == [has_value |-> FALSE, value |-> 0]
Some(f) == [has_value |-> TRUE, value |-> f]

\* Frame ids callers pass: one negative id, the valid range, and the first
\* id past the range.
FrameIdInputs == (-1) .. replacer_size_

\* The Record of a frame, without its lru_iterator (the position of the frame
\* in lru_queue_).
Record(ts, evictable) == [timestamps |-> ts, is_evictable |-> evictable]
NoRecord == Record(<< >>, FALSE)

\* The last call that returned, as last_call records it: the operation, the
\* frame id passed to RecordAccess or Remove (0 for the other operations), the
\* value returned by Evict (nullopt for the other operations) and the Record
\* that Evict or Remove destroyed (NoRecord for the other operations).
Call(op, f, res, erased) ==
    [op |-> op, frame_id |-> f, result |-> res, erased |-> erased]

Last(s) == s[Len(s)]

\* The tracked frames.
Tracked == DOMAIN records_

\* records_.erase(f)
EraseRecord(recs, f) == [g \in (DOMAIN recs) \ {f} |-> recs[g]]

\* lru_queue_.erase(iterator of f)
EraseFromList(q, f) == SelectSeq(q, LAMBDA x : x # f)

\* Mutant of EvictionScoreLess: the distance comparison is reversed.
EvictionScoreLessSmallDistanceFirst(lhs, rhs) ==
    IF lhs.timestamp_distance < rhs.timestamp_distance THEN TRUE
    ELSE IF lhs.timestamp_distance > rhs.timestamp_distance THEN FALSE
    ELSE lhs.earliest_access_timestamp < rhs.earliest_access_timestamp

\* EvictionScore::operator<  (the smaller score is evicted first)
EvictionScoreLess(lhs, rhs) ==
    IF lhs.timestamp_distance > rhs.timestamp_distance THEN TRUE
    ELSE IF lhs.timestamp_distance < rhs.timestamp_distance THEN FALSE
    ELSE lhs.earliest_access_timestamp < rhs.earliest_access_timestamp

\* Mutant of TimestampDist: a short history gets distance 0, not infinity.
TimestampDistShortIsZero(rec) ==
    IF Len(rec.timestamps) = k_
    THEN Last(rec.timestamps) - Head(rec.timestamps)
    ELSE 0

\* cur_ts_dist of one record
TimestampDist(rec) ==
    IF Len(rec.timestamps) = k_
    THEN Last(rec.timestamps) - Head(rec.timestamps)
    ELSE kInfTimestampDist

\* Mutant of EvictionScoreOf: the newest timestamp is taken as the earliest.
EvictionScoreOfNewest(rec) ==
    [earliest_access_timestamp |-> Last(rec.timestamps),
     timestamp_distance |-> TimestampDist(rec)]

\* cur_eviction_score of one record
EvictionScoreOf(rec) ==
    [earliest_access_timestamp |-> Head(rec.timestamps),
     timestamp_distance |-> TimestampDist(rec)]

InitialEvictionScore ==
    [earliest_access_timestamp |-> kMaxAccessTimestamp,
     timestamp_distance |-> 0]

\* Mutant of ScanRecords: the loop does not skip non-evictable records.
RECURSIVE ScanRecordsAnyRecord(_, _, _)
ScanRecordsAnyRecord(order, smallest_eviction_score, frame_to_evict) ==
    IF order = <<>> THEN frame_to_evict
    ELSE LET cur_frame_id == Head(order)
             cur_eviction_score == EvictionScoreOf(records_[cur_frame_id])
         IN  IF EvictionScoreLess(cur_eviction_score, smallest_eviction_score)
             THEN ScanRecordsAnyRecord(Tail(order), cur_eviction_score, cur_frame_id)
             ELSE ScanRecordsAnyRecord(Tail(order), smallest_eviction_score, frame_to_evict)

\* The for loop of Evict over records_ in the iteration order `order`.
RECURSIVE ScanRecords(_, _, _)
ScanRecords(order, smallest_eviction_score, frame_to_evict) ==
    IF order = <<>> THEN frame_to_evict
    ELSE LET cur_frame_id == Head(order)
             cur_record == records_[cur_frame_id]
             cur_eviction_score == EvictionScoreOf(cur_record)
         IN  IF ~cur_record.is_evictable
             THEN ScanRecords(Tail(order), smallest_eviction_score, frame_to_evict)
             ELSE IF EvictionScoreLess(cur_eviction_score, smallest_eviction_score)
             THEN ScanRecords(Tail(order), cur_eviction_score, cur_frame_id)
             ELSE ScanRecords(Tail(order), smallest_eviction_score, frame_to_evict)

\* The iteration orders an unordered map over the frames S may have: every
\* arrangement of S in a sequence.
RECURSIVE ScanOrders(_)
ScanOrders(S) ==
    IF S = {} THEN {<< >>}
    ELSE UNION {{<<f>> \o o : o \in ScanOrders(S \ {f})} : f \in S}

\* frame_to_evict after the loop, for every iteration order of records_.
EvictScanResults ==
    {ScanRecords(order, InitialEvictionScore, 0) : order \in ScanOrders(Tracked)}

\* Caller threads of the replacer.
Threads == {1, 2}
\* A thread that is in no replacer call.
IdleThread ==
    [pc |-> "idle", op |-> "none", frame_id |-> 0, set_evictable |-> FALSE,
     found |-> FALSE, local |-> 0, result |-> nullopt]
\* The state latch_ guards.
Guarded ==
    [records |-> records_, lru |-> lru_queue_, clock |-> current_timestamp_,
     size |-> evictable_size_]
NoSnapshot == [records |-> << >>, lru |-> << >>, clock |-> 0, size |-> 0]

\* A constructed replacer, before any call.
ReplacerConstructed ==
    /\ records_ = << >>
    /\ lru_queue_ = << >>
    /\ current_timestamp_ = 0
    /\ evictable_size_ = 0
    /\ status = "running"
    /\ last_call = Call("LRUKReplacer", 0, nullopt, NoRecord)
    /\ latch_ = 0
    /\ threads = [t \in Threads |-> IdleThread]
    /\ snap = NoSnapshot

\* ------------------------------------------------------------------------
\* DiskScheduler
\* ------------------------------------------------------------------------
RequestIds == 1 .. MaxRequests
\* Page ids the callers address.
PageIds == {0, 1}
\* Contents of a page never written and of a read buffer not yet filled.
EmptyPage == 0
UnfilledBuffer == -1

\* std::optional<DiskRequest> carrying request id r
SomeRequest(r) == [has_value |-> TRUE, value |-> r]

\* Channel<T>::Put: appends under the channel's mutex.
ChannelPut(q, item) == Append(q, item)
\* Channel<T>::Get blocks while the queue is empty, then pops the front.
ChannelCanGet(q) == q # << >>
ChannelFront(q) == Head(q)
ChannelPop(q) == Tail(q)

\* DiskManager::ReadPage(page_id, data): fills the buffer from the page.
ReadPage(pages, page_id) == pages[page_id]
\* DiskManager::WritePage(page_id, data): stores the buffer as the page.
WritePage(pages, page_id, data) == [pages EXCEPT ![page_id] = data]

\* A constructed scheduler: the queue is empty and the background thread is
\* about to call Get.
SchedulerConstructed ==
    /\ requests = << >>
    /\ buffers = << >>
    /\ callback_ = << >>
    /\ request_queue_ = << >>
    /\ scheduling = {}
    /\ worker_pc = "get"
    /\ maybe_req = nullopt
    /\ worker_call = "none"
    /\ in_flight = {}
    /\ disk_pages = [pg \in PageIds |-> EmptyPage]
    /\ dtor_pc = "alive"
    /\ sched_status = "running"
    /\ enqueue_log = << >>
    /\ io_log = << >>
    /\ resolve_log = << >>

SchedulerInit ==
    /\ replacer_size_ = 1
    /\ k_ = 1
    /\ ReplacerConstructed
    /\ SchedulerConstructed

\* The states in which the process executes: "undefined" is the process going
\* on after a Put on the destroyed queue returned (its heap may be damaged).
SchedulerExecuting == {"running", "undefined"}

\* A caller thread builds a DiskRequest with a fresh promise and enters
\* Schedule(r); at most NumProducers threads are inside Schedule at once. A
\* write carries contents that identify the request; a read carries a buffer
\* still to be filled. Nothing in the code keeps a caller from doing so while
\* or after the destructor runs. Once a Put on the destroyed queue has
\* returned, the allocations made here may find the heap damaged and the
\* process is then killed.
CallSchedule(is_write, page_id) ==
    /\ sched_status \in SchedulerExecuting
    /\ Cardinality(scheduling) < NumProducers
    /\ \/ /\ Len(requests) < MaxRequests
          /\ LET r == Len(requests) + 1
             IN  /\ requests' = Append(requests, [is_write_ |-> is_write, page_id_ |-> page_id])
                 /\ buffers' = Append(buffers, IF is_write THEN r ELSE UnfilledBuffer)
                 /\ callback_' = Append(callback_, "pending")
                 /\ scheduling' = scheduling \cup {r}
          /\ UNCHANGED sched_status
       \/ /\ sched_status = "undefined"
          /\ sched_status' = "crashed"
          /\ UNCHANGED <<requests, buffers, callback_, scheduling>>
    /\ UNCHANGED <<request_queue_, worker_pc, maybe_req, worker_call, in_flight,
                   disk_pages, dtor_pc, enqueue_log, io_log, resolve_log>>
    /\ UNCHANGED replacerVars

\* DiskScheduler::Schedule: request_queue_.Put(std::move(r)). A caller may
\* reach the Put after the destructor returned; request_queue_ is then a
\* destroyed object and the Put is undefined behaviour: either it runs on the
\* dead storage and returns (the request sits where no worker will ever
\* look, its promise stays unset, and the process goes on in an undefined
\* state in which a later step may kill it), or the process is killed inside
\* Put.
Schedule(r) ==
    /\ sched_status \in SchedulerExecuting
    /\ r \in scheduling
    /\ \/ /\ request_queue_' = ChannelPut(request_queue_, SomeRequest(r))
          /\ enqueue_log' = Append(enqueue_log, SomeRequest(r))
          /\ scheduling' = scheduling \ {r}
          /\ sched_status' = IF dtor_pc = "destroyed" THEN "undefined" ELSE sched_status
       \/ /\ dtor_pc = "destroyed"
          /\ sched_status' = "crashed"
          /\ UNCHANGED <<request_queue_, enqueue_log, scheduling>>
    /\ UNCHANGED <<requests, buffers, callback_, worker_pc, maybe_req,
                   worker_call, in_flight, disk_pages, dtor_pc, io_log,
                   resolve_log>>
    /\ UNCHANGED replacerVars

\* Mutant of WorkerGet: the branch on is_write_ is inverted, so a write request
\* is served by ReadPage and a read request by WritePage.
WorkerGetBranchInverted ==
    /\ sched_status = "running"
    /\ worker_pc = "get"
    /\ ChannelCanGet(request_queue_)
    /\ maybe_req' = ChannelFront(request_queue_)
    /\ request_queue_' = ChannelPop(request_queue_)
    /\ IF ~ChannelFront(request_queue_).has_value
       THEN worker_pc' = "exited" /\ worker_call' = "none"
       ELSE /\ worker_pc' = "call"
            /\ worker_call' = IF requests[ChannelFront(request_queue_).value].is_write_
                              THEN "ReadPage" ELSE "WritePage"
    /\ UNCHANGED <<requests, buffers, callback_, scheduling, in_flight,
                   disk_pages, dtor_pc, sched_status, enqueue_log, io_log, resolve_log>>
    /\ UNCHANGED replacerVars

\* Mutant of WorkerGet: on std::nullopt the loop continues with the next Get
\* instead of returning.
WorkerGetContinuesOnSentinel ==
    /\ sched_status = "running"
    /\ worker_pc = "get"
    /\ ChannelCanGet(request_queue_)
    /\ maybe_req' = ChannelFront(request_queue_)
    /\ request_queue_' = ChannelPop(request_queue_)
    /\ IF ~ChannelFront(request_queue_).has_value
       THEN worker_pc' = "get" /\ worker_call' = "none"
       ELSE /\ worker_pc' = "call"
            /\ worker_call' = IF requests[ChannelFront(request_queue_).value].is_write_
                              THEN "WritePage" ELSE "ReadPage"
    /\ UNCHANGED <<requests, buffers, callback_, scheduling, in_flight,
                   disk_pages, dtor_pc, sched_status, enqueue_log, io_log, resolve_log>>
    /\ UNCHANGED replacerVars

\* StartWorkerThread: maybe_req = request_queue_.Get(); return on nullopt,
\* otherwise branch on is_write_.
WorkerGet ==
    /\ sched_status = "running"
    /\ worker_pc = "get"
    /\ ChannelCanGet(request_queue_)
    /\ maybe_req' = ChannelFront(request_queue_)
    /\ request_queue_' = ChannelPop(request_queue_)
    /\ IF ~ChannelFront(request_queue_).has_value
       THEN worker_pc' = "exited" /\ worker_call' = "none"
       ELSE /\ worker_pc' = "call"
            /\ worker_call' = IF requests[ChannelFront(request_queue_).value].is_write_
                              THEN "WritePage" ELSE "ReadPage"
    /\ UNCHANGED <<requests, buffers, callback_, scheduling, in_flight,
                   disk_pages, dtor_pc, sched_status, enqueue_log, io_log, resolve_log>>
    /\ UNCHANGED replacerVars

\* Mutant of WorkerIssue: callback_.set_value(true) is made before the disk
\* call instead of after it.
WorkerIssueResolvesFirst ==
    /\ sched_status = "running"
    /\ worker_pc = "call"
    /\ callback_' = [callback_ EXCEPT ![maybe_req.value] = "true"]
    /\ resolve_log' = Append(resolve_log, maybe_req.value)
    /\ in_flight' = in_flight \cup {[thread |-> "worker", req |-> maybe_req.value]}
    /\ io_log' = Append(io_log, maybe_req.value)
    /\ worker_pc' = "in_call"
    /\ UNCHANGED <<requests, buffers, request_queue_, scheduling,
                   maybe_req, worker_call, disk_pages, dtor_pc, sched_status, enqueue_log>>
    /\ UNCHANGED replacerVars

\* The worker enters disk_manager_->ReadPage / WritePage.
WorkerIssue ==
    /\ sched_status = "running"
    /\ worker_pc = "call"
    /\ in_flight' = in_flight \cup {[thread |-> "worker", req |-> maybe_req.value]}
    /\ io_log' = Append(io_log, maybe_req.value)
    /\ worker_pc' = "in_call"
    /\ UNCHANGED <<requests, buffers, callback_, request_queue_, scheduling,
                   maybe_req, worker_call, disk_pages, dtor_pc, sched_status, enqueue_log,
                   resolve_log>>
    /\ UNCHANGED replacerVars

\* The disk call returns having moved the page.
WorkerIoReturn ==
    /\ sched_status = "running"
    /\ worker_pc = "in_call"
    /\ LET r == maybe_req.value
           req == requests[r]
       IN  IF worker_call = "ReadPage"
           THEN /\ buffers' = [buffers EXCEPT ![r] = ReadPage(disk_pages, req.page_id_)]
                /\ UNCHANGED disk_pages
           ELSE /\ disk_pages' = WritePage(disk_pages, req.page_id_, buffers[r])
                /\ UNCHANGED buffers
    /\ in_flight' = in_flight \ {[thread |-> "worker", req |-> maybe_req.value]}
    /\ worker_pc' = "set_value"
    /\ UNCHANGED <<requests, callback_, request_queue_, scheduling,
                   maybe_req, worker_call, dtor_pc, sched_status, enqueue_log, io_log,
                   resolve_log>>
    /\ UNCHANGED replacerVars

\* The disk call faults: the fault propagates out of the worker thread and
\* terminates the process.
WorkerIoFault ==
    /\ sched_status = "running"
    /\ worker_pc = "in_call"
    /\ sched_status' = "aborted"
    /\ UNCHANGED <<requests, buffers, callback_, request_queue_, scheduling,
                   worker_pc, maybe_req, worker_call, in_flight, disk_pages, dtor_pc,
                   enqueue_log, io_log, resolve_log>>
    /\ UNCHANGED replacerVars

\* Mutant of WorkerSetValue: the read branch has no `continue` and falls
\* through to the write of the same request.
WorkerSetValueFallsThrough ==
    /\ sched_status = "running"
    /\ worker_pc = "set_value"
    /\ LET r == maybe_req.value
       IN  IF callback_[r] = "pending"
           THEN /\ callback_' = [callback_ EXCEPT ![r] = "true"]
                /\ resolve_log' = Append(resolve_log, r)
                /\ IF worker_call = "ReadPage"
                   THEN worker_pc' = "call" /\ worker_call' = "WritePage"
                   ELSE worker_pc' = "get" /\ worker_call' = "none"
                /\ UNCHANGED sched_status
           ELSE /\ sched_status' = "aborted"
                /\ UNCHANGED <<callback_, resolve_log, worker_pc, worker_call>>
    /\ UNCHANGED <<requests, buffers, request_queue_, scheduling, maybe_req,
                   in_flight, disk_pages, dtor_pc, enqueue_log, io_log>>
    /\ UNCHANGED replacerVars

\* req.callback_.set_value(true), then the next iteration of the loop (the
\* `continue` of the read branch, the end of the body of the write branch).
WorkerSetValue ==
    /\ sched_status = "running"
    /\ worker_pc = "set_value"
    /\ LET r == maybe_req.value
       IN  IF callback_[r] = "pending"
           THEN /\ callback_' = [callback_ EXCEPT ![r] = "true"]
                /\ resolve_log' = Append(resolve_log, r)
                /\ worker_pc' = "get"
                /\ worker_call' = "none"
                /\ UNCHANGED sched_status
           ELSE \* std::future_error (promise already satisfied) escapes the thread
                /\ sched_status' = "aborted"
                /\ UNCHANGED <<callback_, resolve_log, worker_pc, worker_call>>
    /\ UNCHANGED <<requests, buffers, request_queue_, scheduling, maybe_req,
                   in_flight, disk_pages, dtor_pc, enqueue_log, io_log>>
    /\ UNCHANGED replacerVars

\* Mutant of DestructorPut: the destructor goes to join() without putting
\* std::nullopt on the queue.
DestructorPutForgetsSentinel ==
    /\ sched_status = "running"
    /\ dtor_pc = "alive"
    /\ dtor_pc' = "join"
    /\ UNCHANGED <<requests, buffers, callback_, request_queue_, scheduling, worker_pc,
                   maybe_req, worker_call, in_flight, disk_pages, sched_status,
                   enqueue_log, io_log, resolve_log>>
    /\ UNCHANGED replacerVars

\* ~DiskScheduler: request_queue_.Put(std::nullopt)
DestructorPut ==
    /\ sched_status = "running"
    /\ dtor_pc = "alive"
    /\ request_queue_' = ChannelPut(request_queue_, nullopt)
    /\ enqueue_log' = Append(enqueue_log, nullopt)
    /\ dtor_pc' = "join"
    /\ UNCHANGED <<requests, buffers, callback_, scheduling, worker_pc,
                   maybe_req, worker_call, in_flight, disk_pages, sched_status, io_log,
                   resolve_log>>
    /\ UNCHANGED replacerVars

\* The end of ~DiskScheduler destroys the members: request_queue_ goes with
\* the requests still in it, and a std::promise destroyed before set_value
\* leaves its future ready with std::future_error(broken_promise).
DestroyQueuedRequests(q, promises) ==
    [r \in DOMAIN promises |->
        IF promises[r] = "pending" /\ \E i \in 1 .. Len(q) : q[i] = SomeRequest(r)
        THEN "broken" ELSE promises[r]]

\* Mutant of DestructorJoin: the destructor returns without waiting for the
\* background thread (detach() in place of join()).
DestructorJoinDetached ==
    /\ sched_status = "running"
    /\ dtor_pc = "join"
    /\ dtor_pc' = "destroyed"
    /\ callback_' = DestroyQueuedRequests(request_queue_, callback_)
    /\ UNCHANGED <<requests, buffers, request_queue_, scheduling,
                   worker_pc, maybe_req, worker_call, in_flight, disk_pages, sched_status,
                   enqueue_log, io_log, resolve_log>>
    /\ UNCHANGED replacerVars

\* ~DiskScheduler: background_thread_->join() returns once the worker exited,
\* and the destructor ends by destroying the members. request_queue_ keeps
\* the items the channel held when it was destroyed.
DestructorJoin ==
    /\ sched_status = "running"
    /\ dtor_pc = "join"
    /\ worker_pc = "exited"
    /\ dtor_pc' = "destroyed"
    /\ callback_' = DestroyQueuedRequests(request_queue_, callback_)
    /\ UNCHANGED <<requests, buffers, request_queue_, scheduling,
                   worker_pc, maybe_req, worker_call, in_flight, disk_pages, sched_status,
                   enqueue_log, io_log, resolve_log>>
    /\ UNCHANGED replacerVars

SchedulerNext ==
    \/ \E w \in BOOLEAN, pg \in PageIds : CallSchedule(w, pg)
    \/ \E r \in RequestIds : Schedule(r)
    \/ WorkerGet
    \/ WorkerIssue
    \/ WorkerIoReturn
    \/ WorkerIoFault
    \/ WorkerSetValue
    \/ DestructorPut
    \/ DestructorJoin

SchedulerSpec == SchedulerInit /\ [][SchedulerNext]_vars

\* The scheduler's steps when every DiskManager call returns.
SchedulerNoFaultNext ==
    \/ \E w \in BOOLEAN, pg \in PageIds : CallSchedule(w, pg)
    \/ \E r \in RequestIds : Schedule(r)
    \/ WorkerGet
    \/ WorkerIssue
    \/ WorkerIoReturn
    \/ WorkerSetValue
    \/ DestructorPut
    \/ DestructorJoin

\* The background thread is scheduled fairly: it takes its next step whenever
\* it has one, and the thread running the destructor gets to return from
\* join() once the background thread has exited.
SchedulerFairSpec ==
    /\ SchedulerInit
    /\ [][SchedulerNoFaultNext]_vars
    /\ WF_vars(WorkerGet)
    /\ WF_vars(WorkerIssue)
    /\ WF_vars(WorkerIoReturn)
    /\ WF_vars(WorkerSetValue)
    /\ WF_vars(DestructorJoin)

ReplacerInit ==
    /\ SchedulerConstructed
    /\ replacer_size_ \in 1 .. MaxFrames
    /\ k_ \in 0 .. MaxK
    /\ ReplacerConstructed

\* A failed BUSTUB_ASSERT_AND_LOG: the process is terminated where it stands.
AssertionFailure ==
    /\ status' = "aborted"
    /\ UNCHANGED <<replacer_size_, k_, records_, lru_queue_, current_timestamp_,
                   evictable_size_, last_call>>

\* Mutant of Evict: the victim's record is kept in records_ and only marked
\* non-evictable.
EvictKeepsRecord ==
    /\ status = "running"
    /\ IF evictable_size_ = 0
       THEN /\ last_call' = Call("Evict", 0, nullopt, NoRecord)
            /\ UNCHANGED <<replacer_size_, k_, records_, lru_queue_, current_timestamp_,
                           evictable_size_, status>>
       ELSE \E frame_to_evict \in EvictScanResults :
                IF frame_to_evict \in Tracked
                THEN /\ lru_queue_' = lru_queue_
                     /\ records_' = [records_ EXCEPT ![frame_to_evict].is_evictable = FALSE]
                     /\ evictable_size_' = evictable_size_ - 1
                     /\ last_call' = Call("Evict", 0, Some(frame_to_evict),
                                          records_[frame_to_evict])
                     /\ UNCHANGED <<replacer_size_, k_, current_timestamp_, status>>
                ELSE /\ status' = "undefined"
                     /\ last_call' = Call("Evict", 0, Some(frame_to_evict), NoRecord)
                     /\ UNCHANGED <<replacer_size_, k_, records_, lru_queue_,
                                    current_timestamp_, evictable_size_>>
    /\ UNCHANGED <<schedulerVars, lockVars>>

\* Mutant of Evict: the victim is the evictable frame nearest the back of
\* lru_queue_ (plain LRU), not the one the scan of records_ finds.
EvictFromRecencyList ==
    /\ status = "running"
    /\ IF evictable_size_ = 0
       THEN /\ last_call' = Call("Evict", 0, nullopt, NoRecord)
            /\ UNCHANGED <<replacer_size_, k_, records_, lru_queue_, current_timestamp_,
                           evictable_size_, status>>
       ELSE LET evictable_positions ==
                    {i \in 1 .. Len(lru_queue_) : records_[lru_queue_[i]].is_evictable}
                frame_to_evict ==
                    lru_queue_[CHOOSE i \in evictable_positions :
                                   \A j \in evictable_positions : j <= i]
            IN  /\ lru_queue_' = EraseFromList(lru_queue_, frame_to_evict)
                /\ records_' = EraseRecord(records_, frame_to_evict)
                /\ evictable_size_' = evictable_size_ - 1
                /\ last_call' = Call("Evict", 0, Some(frame_to_evict),
                                     records_[frame_to_evict])
                /\ UNCHANGED <<replacer_size_, k_, current_timestamp_, status>>
    /\ UNCHANGED <<schedulerVars, lockVars>>

Evict ==
    /\ status = "running"
    /\ IF evictable_size_ = 0
       THEN /\ last_call' = Call("Evict", 0, nullopt, NoRecord)
            /\ UNCHANGED <<replacer_size_, k_, records_, lru_queue_, current_timestamp_,
                           evictable_size_, status>>
       ELSE \E frame_to_evict \in EvictScanResults :
                IF frame_to_evict \in Tracked
                THEN /\ lru_queue_' = EraseFromList(lru_queue_, frame_to_evict)
                     /\ records_' = EraseRecord(records_, frame_to_evict)
                     /\ evictable_size_' = evictable_size_ - 1
                     /\ last_call' = Call("Evict", 0, Some(frame_to_evict),
                                          records_[frame_to_evict])
                     /\ UNCHANGED <<replacer_size_, k_, current_timestamp_, status>>
                ELSE \* records_.find() returned end() and is dereferenced
                     /\ status' = "undefined"
                     /\ last_call' = Call("Evict", 0, Some(frame_to_evict), NoRecord)
                     /\ UNCHANGED <<replacer_size_, k_, records_, lru_queue_,
                                    current_timestamp_, evictable_size_>>
    /\ UNCHANGED <<schedulerVars, lockVars>>

\* Mutant of RecordAccess: the oldest entry is dropped only once the history
\* is longer than k_.
RecordAccessKeepsOneMore(frame_id) ==
    /\ status = "running"
    /\ current_timestamp_ < MaxTimestamp
    /\ IF ~(frame_id < replacer_size_)
       THEN AssertionFailure
       ELSE /\ IF frame_id \in Tracked
               THEN LET cur_record == records_[frame_id]
                        kept == IF Len(cur_record.timestamps) > k_
                                THEN Tail(cur_record.timestamps)
                                ELSE cur_record.timestamps
                    IN  /\ records_' = [records_ EXCEPT ![frame_id].timestamps =
                                            Append(kept, current_timestamp_)]
                        /\ lru_queue_' = <<frame_id>> \o EraseFromList(lru_queue_, frame_id)
               ELSE /\ lru_queue_' = <<frame_id>> \o lru_queue_
                    /\ records_' = (frame_id :> Record(<<current_timestamp_>>, FALSE)) @@ records_
            /\ current_timestamp_' = current_timestamp_ + 1
            /\ last_call' = Call("RecordAccess", frame_id, nullopt, NoRecord)
            /\ UNCHANGED <<replacer_size_, k_, evictable_size_, status>>
    /\ UNCHANGED <<schedulerVars, lockVars>>

\* Mutant of RecordAccess: the record of a new frame is stamped with
\* current_timestamp_ without advancing it.
RecordAccessClockStalls(frame_id) ==
    /\ status = "running"
    /\ current_timestamp_ < MaxTimestamp
    /\ IF ~(frame_id < replacer_size_)
       THEN AssertionFailure
       ELSE /\ IF frame_id \in Tracked
               THEN LET cur_record == records_[frame_id]
                        kept == IF Len(cur_record.timestamps) >= k_
                                THEN Tail(cur_record.timestamps)
                                ELSE cur_record.timestamps
                    IN  /\ records_' = [records_ EXCEPT ![frame_id].timestamps =
                                            Append(kept, current_timestamp_)]
                        /\ lru_queue_' = <<frame_id>> \o EraseFromList(lru_queue_, frame_id)
                        /\ current_timestamp_' = current_timestamp_ + 1
               ELSE /\ lru_queue_' = <<frame_id>> \o lru_queue_
                    /\ records_' = (frame_id :> Record(<<current_timestamp_>>, FALSE)) @@ records_
                    /\ current_timestamp_' = current_timestamp_
            /\ last_call' = Call("RecordAccess", frame_id, nullopt, NoRecord)
            /\ UNCHANGED <<replacer_size_, k_, evictable_size_, status>>
    /\ UNCHANGED <<schedulerVars, lockVars>>

RecordAccess(frame_id) ==
    /\ status = "running"
    /\ current_timestamp_ < MaxTimestamp
    /\ IF ~(frame_id < replacer_size_)
       THEN AssertionFailure
       ELSE /\ IF frame_id \in Tracked
               THEN LET cur_record == records_[frame_id]
                        kept == IF Len(cur_record.timestamps) >= k_
                                THEN Tail(cur_record.timestamps)
                                ELSE cur_record.timestamps
                    IN  /\ records_' = [records_ EXCEPT ![frame_id].timestamps =
                                            Append(kept, current_timestamp_)]
                        /\ lru_queue_' = <<frame_id>> \o EraseFromList(lru_queue_, frame_id)
               ELSE /\ lru_queue_' = <<frame_id>> \o lru_queue_
                    /\ records_' = (frame_id :> Record(<<current_timestamp_>>, FALSE)) @@ records_
            /\ current_timestamp_' = current_timestamp_ + 1
            /\ last_call' = Call("RecordAccess", frame_id, nullopt, NoRecord)
            /\ UNCHANGED <<replacer_size_, k_, evictable_size_, status>>
    /\ UNCHANGED <<schedulerVars, lockVars>>

\* Mutant of SetEvictable: the count is raised whenever the flag is set,
\* whatever the flag was.
SetEvictableCountsEverySet(frame_id, set_evictable) ==
    /\ status = "running"
    /\ last_call' = Call("SetEvictable", 0, nullopt, NoRecord)
    /\ IF frame_id \notin Tracked
       THEN UNCHANGED <<records_, evictable_size_>>
       ELSE LET cur_record == records_[frame_id]
            IN  /\ evictable_size_' =
                       IF cur_record.is_evictable /\ ~set_evictable THEN evictable_size_ - 1
                       ELSE IF set_evictable THEN evictable_size_ + 1
                       ELSE evictable_size_
                /\ records_' = [records_ EXCEPT ![frame_id].is_evictable = set_evictable]
    /\ UNCHANGED <<replacer_size_, k_, lru_queue_, current_timestamp_, status>>
    /\ UNCHANGED <<schedulerVars, lockVars>>

\* Mutant of SetEvictable: an untracked frame fails an assertion, as it does
\* in Remove.
SetEvictableAssertsTracked(frame_id, set_evictable) ==
    /\ status = "running"
    /\ IF frame_id \notin Tracked
       THEN AssertionFailure
       ELSE LET cur_record == records_[frame_id]
            IN  /\ last_call' = Call("SetEvictable", 0, nullopt, NoRecord)
                /\ evictable_size_' =
                       IF cur_record.is_evictable /\ ~set_evictable THEN evictable_size_ - 1
                       ELSE IF ~cur_record.is_evictable /\ set_evictable THEN evictable_size_ + 1
                       ELSE evictable_size_
                /\ records_' = [records_ EXCEPT ![frame_id].is_evictable = set_evictable]
                /\ UNCHANGED <<replacer_size_, k_, lru_queue_, current_timestamp_, status>>
    /\ UNCHANGED <<schedulerVars, lockVars>>

SetEvictable(frame_id, set_evictable) ==
    /\ status = "running"
    /\ last_call' = Call("SetEvictable", 0, nullopt, NoRecord)
    /\ IF frame_id \notin Tracked
       THEN UNCHANGED <<records_, evictable_size_>>
       ELSE LET cur_record == records_[frame_id]
            IN  /\ evictable_size_' =
                       IF cur_record.is_evictable /\ ~set_evictable THEN evictable_size_ - 1
                       ELSE IF ~cur_record.is_evictable /\ set_evictable THEN evictable_size_ + 1
                       ELSE evictable_size_
                /\ records_' = [records_ EXCEPT ![frame_id].is_evictable = set_evictable]
    /\ UNCHANGED <<replacer_size_, k_, lru_queue_, current_timestamp_, status>>
    /\ UNCHANGED <<schedulerVars, lockVars>>

\* Mutant of Remove: evictable_size_ is not decremented.
RemoveKeepsCount(frame_id) ==
    /\ status = "running"
    /\ IF frame_id \notin Tracked
       THEN AssertionFailure
       ELSE IF ~records_[frame_id].is_evictable
       THEN AssertionFailure
       ELSE /\ lru_queue_' = EraseFromList(lru_queue_, frame_id)
            /\ records_' = EraseRecord(records_, frame_id)
            /\ last_call' = Call("Remove", frame_id, nullopt, records_[frame_id])
            /\ UNCHANGED <<replacer_size_, k_, current_timestamp_, status, evictable_size_>>
    /\ UNCHANGED <<schedulerVars, lockVars>>

Remove(frame_id) ==
    /\ status = "running"
    /\ IF frame_id \notin Tracked
       THEN AssertionFailure
       ELSE IF ~records_[frame_id].is_evictable
       THEN AssertionFailure
       ELSE /\ lru_queue_' = EraseFromList(lru_queue_, frame_id)
            /\ records_' = EraseRecord(records_, frame_id)
            /\ evictable_size_' = evictable_size_ - 1
            /\ last_call' = Call("Remove", frame_id, nullopt, records_[frame_id])
            /\ UNCHANGED <<replacer_size_, k_, current_timestamp_, status>>
    /\ UNCHANGED <<schedulerVars, lockVars>>

ReplacerNext ==
    \/ Evict
    \/ \E f \in FrameIdInputs : RecordAccess(f)
    \/ \E f \in FrameIdInputs, b \in BOOLEAN : SetEvictable(f, b)
    \/ \E f \in FrameIdInputs : Remove(f)

ReplacerSpec == ReplacerInit /\ [][ReplacerNext]_vars

\* ------------------------------------------------------------------------
\* LRUKReplacer called from several threads: every call is a sequence of
\* steps of its thread, each reading and writing the members in place.
\* ------------------------------------------------------------------------
Thread(t, pc) == [threads EXCEPT ![t].pc = pc]

\* Mutant of LockLatch: the thread goes on without waiting for latch_.
LockLatchNoWait(t, op, f, b) ==
    /\ status = "running"
    /\ UNCHANGED schedulerVars
    /\ threads[t].pc = "idle"
    /\ op = "RecordAccess" => current_timestamp_ < MaxTimestamp
    /\ latch_' = t
    /\ snap' = Guarded
    /\ threads' = [threads EXCEPT ![t] =
                       [IdleThread EXCEPT !.pc = "body", !.op = op, !.frame_id = f,
                                          !.set_evictable = b]]
    /\ UNCHANGED <<replacer_size_, k_, records_, lru_queue_, current_timestamp_,
                   evictable_size_, status, last_call>>

\* A thread calls one of the four operations: std::lock_guard lck(latch_)
\* blocks until latch_ is free, then holds it.
LockLatch(t, op, f, b) ==
    /\ status = "running"
    /\ UNCHANGED schedulerVars
    /\ threads[t].pc = "idle"
    /\ op = "RecordAccess" => current_timestamp_ < MaxTimestamp
    /\ latch_ = 0
    /\ latch_' = t
    /\ snap' = Guarded
    /\ threads' = [threads EXCEPT ![t] =
                       [IdleThread EXCEPT !.pc = "body", !.op = op, !.frame_id = f,
                                          !.set_evictable = b]]
    /\ UNCHANGED <<replacer_size_, k_, records_, lru_queue_, current_timestamp_,
                   evictable_size_, status, last_call>>

\* Evict: the test of evictable_size_ and the scan of records_.
EvictScan(t) ==
    /\ status = "running"
    /\ UNCHANGED schedulerVars
    /\ threads[t].pc = "body"
    /\ threads[t].op = "Evict"
    /\ IF evictable_size_ = 0
       THEN threads' = [threads EXCEPT ![t].pc = "unlock", ![t].result = nullopt]
       ELSE \E frame_to_evict \in EvictScanResults :
                threads' = [threads EXCEPT ![t].pc = "erase", ![t].local = frame_to_evict]
    /\ UNCHANGED <<replacer_size_, k_, records_, lru_queue_, current_timestamp_,
                   evictable_size_, status, last_call, latch_, snap>>

\* Evict: records_.find(frame_to_evict), lru_queue_.erase, records_.erase.
EvictErase(t) ==
    /\ status = "running"
    /\ UNCHANGED schedulerVars
    /\ threads[t].pc = "erase"
    /\ threads[t].op = "Evict"
    /\ IF threads[t].local \in Tracked
       THEN /\ lru_queue_' = EraseFromList(lru_queue_, threads[t].local)
            /\ records_' = EraseRecord(records_, threads[t].local)
            /\ threads' = Thread(t, "decrement")
            /\ UNCHANGED status
       ELSE \* records_.find() returned end() and is dereferenced
            /\ status' = "undefined"
            /\ UNCHANGED <<records_, lru_queue_, threads>>
    /\ UNCHANGED <<replacer_size_, k_, current_timestamp_, evictable_size_, last_call,
                   latch_, snap>>

\* Evict: --evictable_size_; return frame_to_evict.
EvictDecrement(t) ==
    /\ status = "running"
    /\ UNCHANGED schedulerVars
    /\ threads[t].pc = "decrement"
    /\ threads[t].op = "Evict"
    /\ evictable_size_' = evictable_size_ - 1
    /\ threads' = [threads EXCEPT ![t].pc = "unlock", ![t].result = Some(threads[t].local)]
    /\ UNCHANGED <<replacer_size_, k_, records_, lru_queue_, current_timestamp_,
                   status, last_call, latch_, snap>>

\* RecordAccess: the range assertion, records_.find, and the first write of
\* the branch taken (pop_front of a full history, or emplace_front on the
\* list for a new frame).
RecordAccessFind(t) ==
    /\ status = "running"
    /\ UNCHANGED schedulerVars
    /\ threads[t].pc = "body"
    /\ threads[t].op = "RecordAccess"
    /\ LET frame_id == threads[t].frame_id
       IN  IF ~(frame_id < replacer_size_)
           THEN /\ status' = "aborted"
                /\ UNCHANGED <<records_, lru_queue_, threads>>
           ELSE /\ UNCHANGED status
                /\ threads' = [threads EXCEPT ![t].pc = "read_clock",
                                              ![t].found = frame_id \in Tracked]
                /\ IF frame_id \in Tracked
                   THEN /\ records_' =
                               IF Len(records_[frame_id].timestamps) >= k_
                               THEN [records_ EXCEPT ![frame_id].timestamps =
                                         Tail(records_[frame_id].timestamps)]
                               ELSE records_
                        /\ UNCHANGED lru_queue_
                   ELSE /\ lru_queue_' = <<frame_id>> \o lru_queue_
                        /\ UNCHANGED records_
    /\ UNCHANGED <<replacer_size_, k_, current_timestamp_, evictable_size_, last_call,
                   latch_, snap>>

\* RecordAccess: current_timestamp_++ reads the clock ...
RecordAccessReadClock(t) ==
    /\ status = "running"
    /\ UNCHANGED schedulerVars
    /\ threads[t].pc = "read_clock"
    /\ threads' = [threads EXCEPT ![t].pc = "advance_clock",
                                  ![t].local = current_timestamp_]
    /\ UNCHANGED <<replacer_size_, k_, records_, lru_queue_, current_timestamp_,
                   evictable_size_, status, last_call, latch_, snap>>

\* ... and stores the value read plus one.
RecordAccessAdvanceClock(t) ==
    /\ status = "running"
    /\ UNCHANGED schedulerVars
    /\ threads[t].pc = "advance_clock"
    /\ current_timestamp_' = threads[t].local + 1
    /\ threads' = Thread(t, "store")
    /\ UNCHANGED <<replacer_size_, k_, records_, lru_queue_, evictable_size_,
                   status, last_call, latch_, snap>>

\* RecordAccess: the timestamp goes into the history (emplace_back and splice
\* for a frame that was found, records_.emplace of a new Record otherwise).
RecordAccessStore(t) ==
    /\ status = "running"
    /\ UNCHANGED schedulerVars
    /\ threads[t].pc = "store"
    /\ LET frame_id == threads[t].frame_id
       IN  IF threads[t].found
           THEN IF frame_id \in Tracked
                THEN /\ records_' = [records_ EXCEPT ![frame_id].timestamps =
                                         Append(records_[frame_id].timestamps,
                                                threads[t].local)]
                     /\ lru_queue_' = <<frame_id>> \o EraseFromList(lru_queue_, frame_id)
                     /\ threads' = Thread(t, "unlock")
                     /\ UNCHANGED status
                ELSE \* cur_record refers to an erased map entry
                     /\ status' = "undefined"
                     /\ UNCHANGED <<records_, lru_queue_, threads>>
           ELSE /\ records_' =
                       IF frame_id \in Tracked THEN records_
                       ELSE (frame_id :> Record(<<threads[t].local>>, FALSE)) @@ records_
                /\ threads' = Thread(t, "unlock")
                /\ UNCHANGED <<lru_queue_, status>>
    /\ UNCHANGED <<replacer_size_, k_, current_timestamp_, evictable_size_, last_call,
                   latch_, snap>>

\* SetEvictable: records_.find and the adjustment of evictable_size_.
SetEvictableCount(t) ==
    /\ status = "running"
    /\ UNCHANGED schedulerVars
    /\ threads[t].pc = "body"
    /\ threads[t].op = "SetEvictable"
    /\ LET frame_id == threads[t].frame_id
           set_evictable == threads[t].set_evictable
       IN  IF frame_id \notin Tracked
           THEN /\ threads' = Thread(t, "unlock")
                /\ UNCHANGED evictable_size_
           ELSE /\ threads' = Thread(t, "set_flag")
                /\ evictable_size_' =
                       IF records_[frame_id].is_evictable /\ ~set_evictable
                       THEN evictable_size_ - 1
                       ELSE IF ~records_[frame_id].is_evictable /\ set_evictable
                       THEN evictable_size_ + 1
                       ELSE evictable_size_
    /\ UNCHANGED <<replacer_size_, k_, records_, lru_queue_, current_timestamp_,
                   status, last_call, latch_, snap>>

\* SetEvictable: cur_record.is_evictable = set_evictable.
SetEvictableFlag(t) ==
    /\ status = "running"
    /\ UNCHANGED schedulerVars
    /\ threads[t].pc = "set_flag"
    /\ IF threads[t].frame_id \in Tracked
       THEN /\ records_' = [records_ EXCEPT ![threads[t].frame_id].is_evictable =
                                threads[t].set_evictable]
            /\ threads' = Thread(t, "unlock")
            /\ UNCHANGED status
       ELSE \* cur_record refers to an erased map entry
            /\ status' = "undefined"
            /\ UNCHANGED <<records_, threads>>
    /\ UNCHANGED <<replacer_size_, k_, lru_queue_, current_timestamp_, evictable_size_,
                   last_call, latch_, snap>>

\* Remove: records_.find, the two assertions, lru_queue_.erase, records_.erase.
RemoveErase(t) ==
    /\ status = "running"
    /\ UNCHANGED schedulerVars
    /\ threads[t].pc = "body"
    /\ threads[t].op = "Remove"
    /\ LET frame_id == threads[t].frame_id
       IN  IF frame_id \notin Tracked \/ ~records_[frame_id].is_evictable
           THEN /\ status' = "aborted"
                /\ UNCHANGED <<records_, lru_queue_, threads>>
           ELSE /\ lru_queue_' = EraseFromList(lru_queue_, frame_id)
                /\ records_' = EraseRecord(records_, frame_id)
                /\ threads' = [threads EXCEPT ![t].pc = "decrement", ![t].local = frame_id]
                /\ UNCHANGED status
    /\ UNCHANGED <<replacer_size_, k_, current_timestamp_, evictable_size_, last_call,
                   latch_, snap>>

\* Remove: --evictable_size_.
RemoveDecrement(t) ==
    /\ status = "running"
    /\ UNCHANGED schedulerVars
    /\ threads[t].pc = "decrement"
    /\ threads[t].op = "Remove"
    /\ evictable_size_' = evictable_size_ - 1
    /\ threads' = Thread(t, "unlock")
    /\ UNCHANGED <<replacer_size_, k_, records_, lru_queue_, current_timestamp_,
                   status, last_call, latch_, snap>>

\* The call returns: lck goes out of scope and releases latch_.
UnlockLatch(t) ==
    /\ status = "running"
    /\ UNCHANGED schedulerVars
    /\ threads[t].pc = "unlock"
    /\ latch_' = 0
    /\ snap' = NoSnapshot
    /\ threads' = [threads EXCEPT ![t] = IdleThread]
    /\ UNCHANGED <<replacer_size_, k_, records_, lru_queue_, current_timestamp_,
                   evictable_size_, status, last_call>>

ConcurrentReplacerInit ==
    /\ SchedulerConstructed
    /\ replacer_size_ = 2
    /\ k_ = 2
    /\ ReplacerConstructed

ConcurrentReplacerNext ==
    \/ \E t \in Threads : LockLatch(t, "Evict", 0, FALSE)
    \/ \E t \in Threads, f \in FrameIdInputs : LockLatch(t, "RecordAccess", f, FALSE)
    \/ \E t \in Threads, f \in FrameIdInputs, b \in BOOLEAN :
           LockLatch(t, "SetEvictable", f, b)
    \/ \E t \in Threads, f \in FrameIdInputs : LockLatch(t, "Remove", f, FALSE)
    \/ \E t \in Threads : EvictScan(t)
    \/ \E t \in Threads : EvictErase(t)
    \/ \E t \in Threads : EvictDecrement(t)
    \/ \E t \in Threads : RecordAccessFind(t)
    \/ \E t \in Threads : RecordAccessReadClock(t)
    \/ \E t \in Threads : RecordAccessAdvanceClock(t)
    \/ \E t \in Threads : RecordAccessStore(t)
    \/ \E t \in Threads : SetEvictableCount(t)
    \/ \E t \in Threads : SetEvictableFlag(t)
    \/ \E t \in Threads : RemoveErase(t)
    \/ \E t \in Threads : RemoveDecrement(t)
    \/ \E t \in Threads : UnlockLatch(t)

ConcurrentReplacerSpec == ConcurrentReplacerInit /\ [][ConcurrentReplacerNext]_vars

\* ------------------------------------------------------------------------
\* Properties of the replacer (checked under ReplacerSpec)
\* ------------------------------------------------------------------------
EvictableFrames == {f \in Tracked : records_[f].is_evictable}

HistoryLen(f) == Len(records_[f].timestamps)
\* Earliest recorded (retained) timestamp of a tracked frame.
Earliest(f) == records_[f].timestamps[1]
\* Gap between the newest and the K-th newest timestamp of a frame whose
\* history holds at least K >= 1 entries.
BackwardKDistance(f) ==
    records_[f].timestamps[HistoryLen(f)] - records_[f].timestamps[HistoryLen(f) - k_ + 1]

\* This step is a call of Evict that returned (last_call is left alone by a
\* call that dies in an assertion).
EvictReturned == last_call'.op = "Evict" /\ status' # "aborted"
\* ... and it returned a frame.
EvictReturnedFrame == EvictReturned /\ last_call'.result.has_value
\* The frame Evict returned in this step.
Victim == last_call'.result.value

\* C1
\* evictable_size_ equals the number of tracked frames whose is_evictable
\* flag is true, after any sequence of RecordAccess, SetEvictable, Evict and
\* Remove calls from the empty replacer.
EvictableCountExact == evictable_size_ = Cardinality(EvictableFrames)

\* Evict has just returned a frame and left one evictable and one
\* non-evictable frame behind.
EvictableCountWitness ==
    /\ last_call.op = "Evict"
    /\ last_call.result.has_value
    /\ evictable_size_ = 1
    /\ Cardinality(Tracked) = 2

\* C2
\* Evict returns "no victim" exactly when evictable_size_ is 0, and a frame
\* it returns was tracked with is_evictable = true immediately before the
\* call (so never an untracked frame, a non-evictable frame, or the default
\* frame id 0 of the scan).
EvictReturnsOnlyEvictable ==
    [][EvictReturned =>
          /\ (~last_call'.result.has_value) <=> (evictable_size_ = 0)
          /\ last_call'.result.has_value =>
                 (Victim \in EvictableFrames /\ status' = "running")]_vars

\* Evict has returned frame 1 while frame 0, the default of the scan, was
\* tracked and not evictable.
EvictOnlyEvictableWitness ==
    /\ last_call.op = "Evict"
    /\ last_call.result = Some(1)
    /\ 0 \in Tracked
    /\ ~records_[0].is_evictable

\* C3
\* Whenever some evictable tracked frame has fewer than K recorded accesses,
\* Evict returns a frame with fewer than K accesses, never one with a full
\* K-history, whatever the timestamps.
EvictPrefersShortHistory ==
    [][(EvictReturnedFrame /\ \E f \in EvictableFrames : HistoryLen(f) < k_) =>
          (Victim \in EvictableFrames /\ HistoryLen(Victim) < k_)]_vars

\* K = 2, accesses A, A, B, both evictable: Evict has returned B (one access
\* at time 2) and left A with its full history <<0, 1>>.
EvictPrefersShortHistoryWitness ==
    /\ k_ = 2
    /\ last_call.op = "Evict"
    /\ last_call.result.has_value
    /\ last_call.erased.timestamps = <<2>>
    /\ \E f \in EvictableFrames : records_[f].timestamps = <<0, 1>>

\* C4
\* When every evictable tracked frame has a full K-history, Evict returns the
\* evictable frame with the largest gap between its newest and its K-th
\* newest timestamp; among frames of equal gap, the one with the smaller
\* earliest retained timestamp.
EvictLargestBackwardKDistance ==
    [][(EvictReturnedFrame /\ k_ >= 1 /\ \A f \in EvictableFrames : HistoryLen(f) = k_) =>
          /\ Victim \in EvictableFrames
          /\ \A f \in EvictableFrames :
                \/ BackwardKDistance(Victim) > BackwardKDistance(f)
                \/ /\ BackwardKDistance(Victim) = BackwardKDistance(f)
                   /\ Earliest(Victim) <= Earliest(f)]_vars

\* K = 2, accesses A, B, B, A, both evictable: Evict has returned A (gap 3)
\* and left B (gap 1); every evictable frame had a full history.
EvictLargestBackwardKDistanceWitness ==
    /\ k_ = 2
    /\ last_call.op = "Evict"
    /\ last_call.result.has_value
    /\ last_call.erased.timestamps = <<0, 3>>
    /\ \E f \in EvictableFrames : records_[f].timestamps = <<1, 2>>
    /\ \A f \in EvictableFrames : HistoryLen(f) = k_

\* C5 (the law itself)
\* Among evictable tracked frames that all have fewer than K recorded
\* accesses, Evict returns the one whose earliest recorded timestamp is
\* smallest, however many (< K) accesses each has had and however late.
EvictEarliestAmongShortStep ==
    (EvictReturnedFrame /\ \A f \in EvictableFrames : HistoryLen(f) < k_) =>
        /\ Victim \in EvictableFrames
        /\ \A f \in EvictableFrames : Earliest(Victim) <= Earliest(f)

\* The example of C5 as written: capacity 2, K = 2, RecordAccess(1) then
\* RecordAccess(2): the second call returns with both frames tracked, and
\* Evict on the two evictable frames returns 1.
ScenarioBFrames12Step ==
    /\ (replacer_size_ = 2 /\ k_ = 2 /\ Tracked = {1} /\ RecordAccess(2)) =>
           (status' = "running" /\ Tracked' = {1, 2})
    /\ (replacer_size_ = 2 /\ k_ = 2 /\ EvictReturned
            /\ records_ = (1 :> Record(<<0>>, TRUE)) @@ (2 :> Record(<<1>>, TRUE))) =>
           last_call'.result = Some(1)

\* The same example on frames inside [0, capacity): RecordAccess(0) then
\* RecordAccess(1), and Evict returns 0.
ScenarioBFrames01Step ==
    /\ (replacer_size_ = 2 /\ k_ = 2 /\ Tracked = {0} /\ RecordAccess(1)) =>
           (status' = "running" /\ Tracked' = {0, 1})
    /\ (replacer_size_ = 2 /\ k_ = 2 /\ EvictReturned
            /\ records_ = (0 :> Record(<<0>>, TRUE)) @@ (1 :> Record(<<1>>, TRUE))) =>
           last_call'.result = Some(0)

\* C5 as written: the law, with the example on frames 1 and 2 at capacity 2.
EvictEarliestAmongShortFrames12 ==
    [][EvictEarliestAmongShortStep /\ ScenarioBFrames12Step]_vars

\* C5
\* Amended: among evictable tracked frames that all have fewer than K
\* recorded accesses, Evict returns the one whose earliest recorded timestamp
\* is smallest (e.g. capacity 2, K = 2, RecordAccess(0) then RecordAccess(1),
\* both evictable: Evict returns 0), independent of how many (< K) accesses
\* each has and of later accesses to the same frames.
EvictEarliestAmongShort ==
    [][EvictEarliestAmongShortStep /\ ScenarioBFrames01Step]_vars

\* K = 3, accesses A, B, A, both evictable: Evict has returned A (history
\* <<0, 2>>, two accesses, the later one after B's) and left B (history <<1>>).
EvictEarliestAmongShortWitness ==
    /\ k_ = 3
    /\ last_call.op = "Evict"
    /\ last_call.result.has_value
    /\ last_call.erased.timestamps = <<0, 2>>
    /\ \E f \in EvictableFrames : records_[f].timestamps = <<1>>
    /\ \A f \in EvictableFrames : HistoryLen(f) < k_

\* C6
\* No record is ever tracked for a frame id outside [0, capacity), negative
\* ids included, and the number of tracked frames never exceeds capacity.
OnlyValidFramesTracked ==
    /\ \A f \in Tracked : 0 <= f /\ f < replacer_size_
    /\ Cardinality(Tracked) <= replacer_size_

StrictlyIncreasing(ts) == \A i, j \in 1 .. Len(ts) : i < j => ts[i] < ts[j]

Max(a, b) == IF a >= b THEN a ELSE b

\* Histories hold between 1 and `most` timestamps, oldest first.
HistoriesWithin(most) ==
    \A f \in Tracked :
        /\ 1 <= HistoryLen(f)
        /\ HistoryLen(f) <= most
        /\ StrictlyIncreasing(records_[f].timestamps)

\* A RecordAccess that returns, on a frame whose history holds `full` entries,
\* drops exactly the oldest entry and appends the new timestamp.
RecordAccessShiftsStep(full) ==
    \A f \in Tracked :
        (/\ last_call'.op = "RecordAccess"
         /\ last_call'.frame_id = f
         /\ current_timestamp_' # current_timestamp_
         /\ HistoryLen(f) = full) =>
            records_'[f].timestamps =
                Append(Tail(records_[f].timestamps), current_timestamp_)

\* C7 as written: at least 1 and at most K timestamps for the K of the
\* constructor, strictly increasing; a RecordAccess at length K shifts.
HistoryBoundedByK ==
    [][HistoriesWithin(k_) /\ HistoriesWithin(k_)' /\ RecordAccessShiftsStep(k_)]_vars

\* C7
\* Amended: every tracked frame's history holds at least 1 and at most
\* max(K, 1) timestamps (a replacer constructed with K = 0 keeps one
\* timestamp per frame), strictly increasing from oldest to newest; a
\* RecordAccess on a frame whose history is already of length max(K, 1) drops
\* exactly the oldest entry and appends the new one.
HistoryBoundedByKOrOne ==
    [][/\ HistoriesWithin(Max(k_, 1))
       /\ HistoriesWithin(Max(k_, 1))'
       /\ RecordAccessShiftsStep(Max(k_, 1))]_vars

\* K = 2: a third RecordAccess of one frame has dropped timestamp 0 and left
\* the history <<1, 2>>.
HistoryBoundedWitness ==
    /\ k_ = 2
    /\ last_call.op = "RecordAccess"
    /\ last_call.frame_id \in Tracked
    /\ records_[last_call.frame_id].timestamps = <<1, 2>>

\* C8
\* Remove(f) on a tracked evictable frame f untracks exactly f and decrements
\* evictable_size_ by exactly 1, leaving every other record and the clock as
\* they were; a frame that is not tracked becomes tracked only by a
\* RecordAccess of it, as a non-evictable frame, and Evict returns only
\* tracked evictable frames: so f is not returned by a later Evict until it
\* is re-recorded and marked evictable again.
RemoveUntracksExactlyOne ==
    [][/\ \A f \in EvictableFrames :
              (last_call'.op = "Remove" /\ last_call'.frame_id = f) =>
                  /\ Tracked' = Tracked \ {f}
                  /\ \A g \in Tracked' : records_'[g] = records_[g]
                  /\ evictable_size_' = evictable_size_ - 1
                  /\ current_timestamp_' = current_timestamp_
                  /\ status' = "running"
       /\ \A f \in Tracked' \ Tracked :
              /\ last_call'.op = "RecordAccess"
              /\ last_call'.frame_id = f
              /\ ~records_'[f].is_evictable
       /\ EvictReturnedFrame => Victim \in EvictableFrames]_vars

\* Remove has just destroyed one of two evictable records and left a second
\* evictable frame and a non-evictable one behind.
RemoveWitness ==
    /\ last_call.op = "Remove"
    /\ last_call.erased.is_evictable
    /\ evictable_size_ = 1
    /\ Cardinality(Tracked) = 2
    /\ Cardinality(EvictableFrames) = 1

\* C9
\* Remove(f) on an untracked frame or on a tracked non-evictable frame, and
\* RecordAccess on an id outside [0, capacity), each fail fatally and leave
\* the tracked-frame map, every history, every evictable flag,
\* evictable_size_ and the logical clock as they were.
FatalCallsLeaveStateUntouched ==
    [][\A f \in FrameIdInputs :
          /\ ((f \notin EvictableFrames) /\ Remove(f)) =>
                 (status' = "aborted"
                  /\ UNCHANGED <<records_, lru_queue_, evictable_size_, current_timestamp_>>)
          /\ (~(0 <= f /\ f < replacer_size_) /\ RecordAccess(f)) =>
                 (status' = "aborted"
                  /\ UNCHANGED <<records_, lru_queue_, evictable_size_, current_timestamp_>>)]_vars

\* ------------------------------------------------------------------------
\* Properties of the disk scheduler (checked under SchedulerSpec)
\* ------------------------------------------------------------------------
IsPrefix(a, b) == Len(a) <= Len(b) /\ \A i \in 1 .. Len(a) : a[i] = b[i]

\* The request ids in the order their Put reached the queue (the sentinel
\* left out).
RequestItems == SelectSeq(enqueue_log, LAMBDA item : item.has_value)
EnqueuedRequests == [i \in 1 .. Len(RequestItems) |-> RequestItems[i].value]

\* C10
\* With several caller threads inside Schedule at once, at most one
\* ReadPage/WritePage call is in flight at any time and only the worker makes
\* it; the disk calls are issued in exactly the order the requests were
\* enqueued, and the promises are set in that same order.
SerialFifoService ==
    /\ Cardinality(in_flight) <= 1
    /\ \A c \in in_flight : c.thread = "worker"
    /\ IsPrefix(io_log, EnqueuedRequests)
    /\ IsPrefix(resolve_log, io_log)

\* Two callers were inside Schedule at once: request 2, created after request
\* 1, was enqueued before it, and both were served and resolved in enqueue
\* order.
SerialFifoServiceWitness ==
    /\ EnqueuedRequests = <<2, 1>>
    /\ io_log = <<2, 1>>
    /\ resolve_log = <<2, 1>>

Range(s) == {s[i] : i \in 1 .. Len(s)}

\* Where the destructor's std::nullopt sits among the items put on the queue
\* (one past the end while the destructor has not put it).
SentinelPositions == {i \in 1 .. Len(enqueue_log) : ~enqueue_log[i].has_value}
SentinelPos ==
    IF SentinelPositions = {} THEN Len(enqueue_log) + 1
    ELSE CHOOSE i \in SentinelPositions : \A j \in SentinelPositions : i <= j
EnqueuedBeforeSentinel ==
    {enqueue_log[i].value : i \in {j \in 1 .. Len(enqueue_log) : j < SentinelPos}}
EnqueuedAfterSentinel ==
    {enqueue_log[i].value :
        i \in {j \in 1 .. Len(enqueue_log) : j > SentinelPos /\ enqueue_log[j].has_value}}
InFlightRequests == {c.req : c \in in_flight}

\* C11
\* Once the destructor has returned, every request that was put on the queue
\* before the destructor's std::nullopt has had its ReadPage/WritePage call
\* made and finished and its promise set.
DrainBeforeDestructorReturns ==
    dtor_pc = "destroyed" =>
        \A r \in EnqueuedBeforeSentinel :
            /\ r \in Range(io_log)
            /\ r \notin InFlightRequests
            /\ callback_[r] = "true"

\* The destructor has returned after three requests were enqueued ahead of
\* its sentinel, and all three were served.
DrainWitness ==
    /\ dtor_pc = "destroyed"
    /\ Cardinality(EnqueuedBeforeSentinel) = 3
    /\ Len(resolve_log) = 3

\* C12
\* A promise is set at most once, only by the worker at its set_value step for
\* the request it holds, only after that request's disk call was made and has
\* returned, and only to true; a request whose disk call faulted keeps its
\* promise unset. No promise is ever given the value false, and a promise that
\* has a value keeps it; the only other thing that happens to a promise is
\* that it is destroyed without a value, at the end of the destructor, for a
\* request that was left on the queue and never had a disk call.
HandleResolvedOnceAfterIo ==
    [][/\ \A r \in 1 .. Len(callback_) :
              /\ (callback_'[r] = "true" /\ callback_[r] # "true") =>
                  /\ callback_[r] = "pending"
                  /\ worker_pc = "set_value"
                  /\ maybe_req = SomeRequest(r)
                  /\ r \in Range(io_log)
                  /\ in_flight = {}
                  /\ sched_status = "running"
              /\ callback_[r] = "true" => callback_'[r] = "true"
              /\ (callback_'[r] # callback_[r] /\ callback_'[r] # "true") =>
                  /\ callback_[r] = "pending"
                  /\ callback_'[r] = "broken"
                  /\ dtor_pc = "join" /\ dtor_pc' = "destroyed"
                  /\ SomeRequest(r) \in Range(request_queue_)
                  /\ r \notin Range(io_log')
       /\ \A r \in 1 .. Len(callback_') :
              callback_'[r] \in {"pending", "true", "broken"}
       /\ \A i, j \in 1 .. Len(resolve_log') :
              i # j => resolve_log'[i] # resolve_log'[j]
       /\ Range(resolve_log') = {r \in 1 .. Len(callback_') : callback_'[r] = "true"}
       /\ (sched_status' = "aborted" /\ worker_pc' = "in_call") =>
              callback_'[maybe_req'.value] = "pending"]_vars

\* Request 1 was served and its promise set to true; the disk call of request
\* 2 then faulted, and its promise is still unset.
HandleResolvedWitness ==
    /\ sched_status = "aborted"
    /\ worker_pc = "in_call"
    /\ resolve_log = <<1>>
    /\ callback_[1] = "true"
    /\ maybe_req = SomeRequest(2)
    /\ callback_[2] = "pending"

\* The contents of the latest write to r's page that was enqueued before r
\* (an empty page when there is none).
LatestWriteBefore(r) ==
    LET pos == CHOOSE i \in 1 .. Len(EnqueuedRequests) : EnqueuedRequests[i] = r
        ws == {j \in 1 .. Len(EnqueuedRequests) :
                  /\ j < pos
                  /\ requests[EnqueuedRequests[j]].is_write_
                  /\ requests[EnqueuedRequests[j]].page_id_ = requests[r].page_id_}
    IN  IF ws = {} THEN EmptyPage
        ELSE buffers[EnqueuedRequests[CHOOSE j \in ws : \A i \in ws : i <= j]]

\* C13
\* A read whose promise is set holds in its buffer the contents of the latest
\* write to the same page that was enqueued before it.
ReadObservesLatestWrite ==
    \A r \in 1 .. Len(requests) :
        (~requests[r].is_write_ /\ callback_[r] = "true") =>
            buffers[r] = LatestWriteBefore(r)

\* Two writes of page 0 were enqueued in the order 2, 1 and then a read of page
\* 0: the read is resolved and holds the contents written by request 1.
ReadObservesLatestWriteWitness ==
    /\ EnqueuedRequests = <<2, 1, 3>>
    /\ requests[1] = [is_write_ |-> TRUE, page_id_ |-> 0]
    /\ requests[2] = [is_write_ |-> TRUE, page_id_ |-> 0]
    /\ requests[3] = [is_write_ |-> FALSE, page_id_ |-> 0]
    /\ callback_[3] = "true"
    /\ buffers[3] = buffers[1]

\* C14
\* Exactly one std::nullopt is put on the queue, by the destructor; the worker
\* exits on taking it and from then on takes nothing from the queue, makes no
\* disk call and sets no promise, so a request put after it is never served
\* and its promise never gets a value (it is unset, or destroyed unset with
\* the queue), and the worker has exited when the destructor returns.
SentinelIsLastDequeued ==
    [][/\ Cardinality(SentinelPositions') = (IF dtor_pc' = "alive" THEN 0 ELSE 1)
       /\ (enqueue_log' # enqueue_log /\ ~Last(enqueue_log').has_value) =>
              (dtor_pc = "alive" /\ dtor_pc' = "join")
       /\ (worker_pc = "get" /\ worker_pc' # "get") =>
              (worker_pc' = "exited" <=> ~maybe_req'.has_value)
       /\ (worker_pc = "get" /\ request_queue_' # request_queue_
            /\ Len(request_queue_') < Len(request_queue_)
            /\ ~maybe_req'.has_value) => worker_pc' = "exited"
       /\ worker_pc = "exited" =>
              /\ worker_pc' = "exited"
              /\ io_log' = io_log
              /\ resolve_log' = resolve_log
              /\ disk_pages' = disk_pages
              /\ in_flight' = {}
              /\ IsPrefix(request_queue_, request_queue_')
              /\ \A r \in 1 .. Len(callback_) :
                     (callback_'[r] = "true") = (callback_[r] = "true")
       /\ \A r \in EnqueuedAfterSentinel' :
              /\ r \notin Range(io_log')
              /\ r \notin Range(resolve_log')
              /\ callback_'[r] \in {"pending", "broken"}
       /\ dtor_pc' = "destroyed" => (worker_pc' = "exited" /\ in_flight' = {})]_vars

\* A Schedule raced with the destructor: its request was put after the
\* sentinel and was still on the queue, unserved, when the destructor
\* returned; its promise went with the queue, without a value.
SentinelIsLastWitness ==
    /\ dtor_pc = "destroyed"
    /\ worker_pc = "exited"
    /\ EnqueuedAfterSentinel # {}
    /\ request_queue_ # << >>
    /\ resolve_log # << >>
    /\ \E r \in EnqueuedAfterSentinel : callback_[r] = "broken"
    /\ \A r \in EnqueuedAfterSentinel : callback_[r] # "true"

\* The requests put on the queue before the sentinel whose promise is not set.
UnresolvedBeforeSentinel ==
    {r \in EnqueuedBeforeSentinel : callback_[r] # "true"}

\* C15
\* With the worker scheduled fairly and every disk call returning, every
\* request enqueued before the sentinel eventually has its promise set, and
\* once the destructor has put the sentinel the worker eventually exits and
\* the destructor eventually returns. Stated as: again and again there is no
\* enqueued request ahead of the sentinel with an unset promise while the
\* destructor is either not begun or returned with the worker exited. A
\* request stays enqueued and a set promise stays set, so each request is
\* resolved; the destructor never goes back to not begun, so from its Put it
\* reaches its return.
EnqueuedRequestsEventuallyResolved ==
    /\ []<>(/\ UnresolvedBeforeSentinel = {}
            /\ \/ dtor_pc = "alive"
               \/ worker_pc = "exited" /\ dtor_pc = "destroyed")
    /\ [][/\ dtor_pc # "alive" => dtor_pc' # "alive"
          /\ IsPrefix(enqueue_log, enqueue_log')
          /\ \A r \in 1 .. Len(callback_) :
                 callback_[r] = "true" => callback_'[r] = "true"]_vars

\* Both requests enqueued ahead of the sentinel have their promises set, the
\* worker has exited and the destructor has returned.
EventuallyResolvedWitness ==
    /\ EnqueuedBeforeSentinel = {1, 2}
    /\ callback_ = <<"true", "true">>
    /\ worker_pc = "exited"
    /\ dtor_pc = "destroyed"

\* ------------------------------------------------------------------------
\* Further properties of the replacer (checked under ReplacerSpec)
\* ------------------------------------------------------------------------
InRange(f) == 0 <= f /\ f < replacer_size_

\* C16
\* The first RecordAccess of an untracked in-range frame creates a record
\* holding only the current timestamp, with is_evictable = false, and leaves
\* evictable_size_ as it was; this is so whatever record the frame had before
\* an Evict or Remove destroyed it, because those erase the record from
\* records_; a RecordAccess of a tracked frame leaves its flag as it was.
RecordLifecycle ==
    [][/\ \A f \in FrameIdInputs :
              (InRange(f) /\ last_call'.frame_id = f /\ RecordAccess(f)) =>
                  /\ status' = "running"
                  /\ IF f \notin Tracked
                     THEN /\ records_'[f] = Record(<<current_timestamp_>>, FALSE)
                          /\ evictable_size_' = evictable_size_
                     ELSE records_'[f].is_evictable = records_[f].is_evictable
       /\ (EvictReturnedFrame /\ status' = "running") =>
              (Victim \in Tracked /\ Victim \notin Tracked')
       /\ \A f \in FrameIdInputs :
              (status' = "running" /\ last_call'.frame_id = f /\ Remove(f)) =>
                  (f \in Tracked /\ f \notin Tracked')]_vars

\* With capacity 1 and k_ = 3 the clock stands at 4 and the only record is the
\* one RecordAccess(0) has just created: the records that held timestamps 0,
\* 1 and 2 were destroyed, and the new record holds timestamp 3 alone and is
\* not evictable.
RecordLifecycleWitness ==
    /\ replacer_size_ = 1
    /\ k_ = 3
    /\ current_timestamp_ = 4
    /\ last_call.op = "RecordAccess"
    /\ last_call.frame_id = 0
    /\ Tracked = {0}
    /\ records_[0] = Record(<<3>>, FALSE)
    /\ evictable_size_ = 0

\* C17
\* SetEvictable(f, flag) on an untracked frame (an out-of-range id included)
\* changes nothing and does not fail; on a tracked frame it changes only f's
\* flag and evictable_size_ (by +1, -1 or 0), never a history, the clock or
\* the set of tracked frames; and a call made when f's flag already equals
\* flag, as it does after a first such call, changes nothing.
SetEvictableFrameEffect ==
    [][\/ last_call'.op # "SetEvictable"
       \/ /\ \/ /\ status' = "running"
                /\ Tracked' = Tracked
                /\ current_timestamp_' = current_timestamp_
                /\ lru_queue_' = lru_queue_
                /\ \A g \in Tracked : records_'[g].timestamps = records_[g].timestamps
             \/ ~\E f \in FrameIdInputs, b \in BOOLEAN : SetEvictable(f, b)
          /\ \A f \in FrameIdInputs, b \in BOOLEAN :
                 \/ /\ IF f \notin Tracked
                       THEN records_' = records_ /\ evictable_size_' = evictable_size_
                       ELSE /\ records_' = [records_ EXCEPT ![f].is_evictable = b]
                            /\ evictable_size_' = evictable_size_ +
                                   (IF b /\ ~records_[f].is_evictable THEN 1
                                    ELSE IF ~b /\ records_[f].is_evictable THEN -1
                                    ELSE 0)
                    /\ (f \in Tracked /\ records_[f].is_evictable = b) =>
                           (records_' = records_ /\ evictable_size_' = evictable_size_)
                 \/ ~SetEvictable(f, b)]_vars

\* SetEvictable has just been called with two frames tracked, one of them
\* evictable with a two-entry history.
SetEvictableWitness ==
    /\ last_call.op = "SetEvictable"
    /\ Cardinality(Tracked) = 2
    /\ evictable_size_ = 1
    /\ \E f \in Tracked : records_[f].is_evictable /\ Len(records_[f].timestamps) = 2

\* lru_queue_ lists exactly the tracked frames, each once, the most recently
\* accessed first.
RecencyListConsistent ==
    /\ Len(lru_queue_) = Cardinality(Tracked)
    /\ Range(lru_queue_) = Tracked
    /\ \A i, j \in 1 .. Len(lru_queue_) :
           i < j => Last(records_[lru_queue_[i]].timestamps) >
                    Last(records_[lru_queue_[j]].timestamps)

\* A replacer that keeps records_, current_timestamp_ and evictable_size_
\* but no recency list: its four operations and what they return.
MapOnlyAssertionFailure ==
    /\ status' = "aborted"
    /\ UNCHANGED <<records_, current_timestamp_, evictable_size_, last_call>>

MapOnlyEvict ==
    /\ last_call'.op = "Evict"
    /\ IF evictable_size_ = 0
       THEN /\ last_call' = Call("Evict", 0, nullopt, NoRecord)
            /\ UNCHANGED <<records_, current_timestamp_, evictable_size_, status>>
       ELSE \E frame_to_evict \in EvictScanResults :
                IF frame_to_evict \in Tracked
                THEN /\ records_' = EraseRecord(records_, frame_to_evict)
                     /\ evictable_size_' = evictable_size_ - 1
                     /\ last_call' = Call("Evict", 0, Some(frame_to_evict),
                                          records_[frame_to_evict])
                     /\ UNCHANGED <<current_timestamp_, status>>
                ELSE /\ status' = "undefined"
                     /\ last_call' = Call("Evict", 0, Some(frame_to_evict), NoRecord)
                     /\ UNCHANGED <<records_, current_timestamp_, evictable_size_>>

MapOnlyRecordAccess(frame_id) ==
    IF ~(frame_id < replacer_size_)
    THEN MapOnlyAssertionFailure
    ELSE /\ last_call' = Call("RecordAccess", frame_id, nullopt, NoRecord)
         /\ current_timestamp_' = current_timestamp_ + 1
         /\ records_' =
                IF frame_id \in Tracked
                THEN LET ts == records_[frame_id].timestamps
                         kept == IF Len(ts) >= k_ THEN Tail(ts) ELSE ts
                     IN  [records_ EXCEPT ![frame_id].timestamps =
                              Append(kept, current_timestamp_)]
                ELSE (frame_id :> Record(<<current_timestamp_>>, FALSE)) @@ records_
         /\ UNCHANGED <<evictable_size_, status>>

MapOnlySetEvictable(frame_id, set_evictable) ==
    /\ last_call' = Call("SetEvictable", 0, nullopt, NoRecord)
    /\ IF frame_id \notin Tracked
       THEN UNCHANGED <<records_, evictable_size_>>
       ELSE /\ evictable_size_' =
                   IF records_[frame_id].is_evictable /\ ~set_evictable
                   THEN evictable_size_ - 1
                   ELSE IF ~records_[frame_id].is_evictable /\ set_evictable
                   THEN evictable_size_ + 1
                   ELSE evictable_size_
            /\ records_' = [records_ EXCEPT ![frame_id].is_evictable = set_evictable]
    /\ UNCHANGED <<current_timestamp_, status>>

MapOnlyRemove(frame_id) ==
    IF frame_id \notin Tracked \/ ~records_[frame_id].is_evictable
    THEN MapOnlyAssertionFailure
    ELSE /\ last_call' = Call("Remove", frame_id, nullopt, records_[frame_id])
         /\ records_' = EraseRecord(records_, frame_id)
         /\ evictable_size_' = evictable_size_ - 1
         /\ UNCHANGED <<current_timestamp_, status>>

MapOnlyNext ==
    \/ \E f \in FrameIdInputs : MapOnlyRecordAccess(f)
    \/ \E f \in FrameIdInputs, b \in BOOLEAN : MapOnlySetEvictable(f, b)
    \/ \E f \in FrameIdInputs : MapOnlyRemove(f)
    \/ MapOnlyEvict

\* C19
\* In every reachable state lru_queue_ holds exactly the tracked frame ids,
\* each once, the most recently accessed at the front; and every step of the
\* replacer is a step of the map-only replacer started in the same state, with
\* the same Evict result and the same records, clock and evictable_size_
\* afterwards.
RecencyListInert ==
    [][RecencyListConsistent' /\ MapOnlyNext]_vars

\* Evict has just returned a frame whose last access is more recent than the
\* first of the two accesses the remaining frame has had: the victim was not
\* taken from the back of the list by recency alone.
RecencyListWitness ==
    /\ last_call.op = "Evict"
    /\ last_call.result.has_value
    /\ Len(lru_queue_) = 1
    /\ Len(records_[lru_queue_[1]].timestamps) = 2
    /\ Last(last_call.erased.timestamps) > Head(records_[lru_queue_[1]].timestamps)

\* Every timestamp held in a history, with the frame and position holding it.
HeldTimestamps ==
    UNION {{<<f, i>> : i \in 1 .. Len(records_[f].timestamps)} : f \in Tracked}
TimestampsDistinct ==
    \A a, b \in HeldTimestamps :
        a # b => records_[a[1]].timestamps[a[2]] # records_[b[1]].timestamps[b[2]]

\* C20
\* The clock advances by exactly 1 on every RecordAccess that succeeds and is
\* changed by no other operation; no two timestamps held in the histories are
\* equal; no two evictable frames have the same eviction score; and the scan
\* of Evict ends on the same frame whatever the iteration order of records_.
EvictIsDeterministic ==
    /\ [](/\ TimestampsDistinct
          /\ \A f, g \in EvictableFrames :
                 f # g => EvictionScoreOf(records_[f]) # EvictionScoreOf(records_[g])
          /\ evictable_size_ > 0 => Cardinality(EvictScanResults) = 1)
    /\ [][/\ \A f \in FrameIdInputs :
                 (status' = "running" /\ last_call'.frame_id = f /\ RecordAccess(f)) =>
                     current_timestamp_' = current_timestamp_ + 1
          /\ current_timestamp_' # current_timestamp_ =>
                 \E f \in FrameIdInputs : RecordAccess(f) /\ status' = "running"]_vars

\* Two evictable frames with histories shorter than k_ (both at infinite
\* distance) are scanned: every iteration order ends on the same frame.
EvictIsDeterministicWitness ==
    /\ k_ = 3
    /\ Cardinality(EvictableFrames) = 2
    /\ \A f \in EvictableFrames : Len(records_[f].timestamps) = 2
    /\ Cardinality(ScanOrders(Tracked)) = 2
    /\ Cardinality(EvictScanResults) = 1

\* ------------------------------------------------------------------------
\* Properties of the replacer called from several threads (checked under
\* ConcurrentReplacerSpec)
\* ------------------------------------------------------------------------
\* The threads that are inside a call.
InCritical == {t \in Threads : threads[t].pc # "idle"}
\* The timestamps held in the histories.
HeldTimestampValues ==
    UNION {Range(records_[f].timestamps) : f \in Tracked}
\* The threads that have read the clock for a timestamp not yet stored.
Stamping == {t \in Threads : threads[t].pc \in {"advance_clock", "store"}}

\* What one call, made alone on the guarded state s, leaves behind (g) and
\* returns (th.result): the single-threaded meaning of the four operations.
SequentialOutcome(s, th, g) ==
    LET f == th.frame_id
    IN  CASE th.op = "Evict" ->
                 IF s.size = 0
                 THEN ~th.result.has_value /\ g = s
                 ELSE LET v == th.result.value
                      IN  /\ th.result.has_value
                          /\ v \in DOMAIN s.records
                          /\ s.records[v].is_evictable
                          /\ \A h \in DOMAIN s.records :
                                 (h # v /\ s.records[h].is_evictable) =>
                                     EvictionScoreLess(EvictionScoreOf(s.records[v]),
                                                       EvictionScoreOf(s.records[h]))
                          /\ g = [records |-> EraseRecord(s.records, v),
                                  lru |-> EraseFromList(s.lru, v),
                                  clock |-> s.clock,
                                  size |-> s.size - 1]
          [] th.op = "RecordAccess" ->
                 g = [records |->
                          IF f \in DOMAIN s.records
                          THEN LET ts == s.records[f].timestamps
                                   kept == IF Len(ts) >= k_ THEN Tail(ts) ELSE ts
                               IN  [s.records EXCEPT ![f].timestamps = Append(kept, s.clock)]
                          ELSE (f :> Record(<<s.clock>>, FALSE)) @@ s.records,
                      lru |-> <<f>> \o EraseFromList(s.lru, f),
                      clock |-> s.clock + 1,
                      size |-> s.size]
          [] th.op = "SetEvictable" ->
                 IF f \notin DOMAIN s.records
                 THEN g = s
                 ELSE g = [records |-> [s.records EXCEPT ![f].is_evictable = th.set_evictable],
                           lru |-> s.lru,
                           clock |-> s.clock,
                           size |-> s.size +
                               (IF th.set_evictable /\ ~s.records[f].is_evictable THEN 1
                                ELSE IF ~th.set_evictable /\ s.records[f].is_evictable THEN -1
                                ELSE 0)]
          [] OTHER ->
                 /\ th.op = "Remove"
                 /\ f \in DOMAIN s.records
                 /\ s.records[f].is_evictable
                 /\ g = [records |-> EraseRecord(s.records, f),
                         lru |-> EraseFromList(s.lru, f),
                         clock |-> s.clock,
                         size |-> s.size - 1]

\* The operations of ReplacerSpec, each a whole call in one step, have these
\* outcomes (checked under ReplacerSpec).
AtomicCallsHaveSequentialOutcome ==
    [][/\ (Evict /\ status' = "running") =>
              SequentialOutcome(Guarded,
                  [IdleThread EXCEPT !.op = "Evict", !.result = last_call'.result],
                  Guarded')
       /\ \A f \in FrameIdInputs :
              /\ (RecordAccess(f) /\ status' = "running") =>
                     SequentialOutcome(Guarded,
                         [IdleThread EXCEPT !.op = "RecordAccess", !.frame_id = f], Guarded')
              /\ (Remove(f) /\ status' = "running") =>
                     SequentialOutcome(Guarded,
                         [IdleThread EXCEPT !.op = "Remove", !.frame_id = f], Guarded')
              /\ \A b \in BOOLEAN :
                     SetEvictable(f, b) =>
                         SequentialOutcome(Guarded,
                             [IdleThread EXCEPT !.op = "SetEvictable", !.frame_id = f,
                                                !.set_evictable = b],
                             Guarded')]_vars

\* C18
\* With several threads calling the four operations, at most one thread is
\* inside a call at a time and it holds latch_; the guarded state is changed
\* only by the thread holding latch_; whenever latch_ is free evictable_size_
\* is the number of evictable frames and the histories are well formed; a call
\* that is about to return has left the guarded state, and returns, what the
\* same call made alone on the state it found when it took latch_ would; the
\* timestamp a RecordAccess has read is held by no history and by no other
\* thread; and every Evict or Remove that erases a record erases one that is
\* tracked at that moment, so no record is handed out twice.
CallsAreAtomic ==
    [][/\ Cardinality(InCritical') <= 1
       /\ (latch_' = 0) <=> (InCritical' = {})
       /\ \A t \in InCritical' : latch_' = t
       /\ Guarded' # Guarded =>
              \E t \in Threads :
                  /\ latch_ = t
                  /\ threads[t].pc # "idle"
                  /\ threads'[t] # threads[t]
                  /\ \A u \in Threads \ {t} : threads'[u] = threads[u]
       /\ latch_' = 0 => (EvictableCountExact' /\ (HistoriesWithin(Max(k_, 1)))')
       /\ \A t \in Threads :
              threads'[t].pc = "unlock" =>
                  SequentialOutcome(snap', threads'[t], Guarded')
       /\ \A t \in Stamping' :
              /\ threads'[t].local \notin HeldTimestampValues'
              /\ \A u \in Stamping' \ {t} : threads'[u].local # threads'[t].local
       /\ \A t \in Threads :
              (threads[t].pc \in {"body", "erase"} /\ threads'[t].pc = "decrement") =>
                  /\ threads'[t].local \in Tracked
                  /\ Tracked' = Tracked \ {threads'[t].local}
       /\ status' # "undefined"]_vars

\* Thread 2 holds latch_ in the middle of SetEvictable: it has adjusted
\* evictable_size_ and not yet stored the flag, so the count differs from the
\* number of evictable frames while the latch is held; thread 1 is outside any
\* call and two frames are tracked.
CallsAreAtomicWitness ==
    /\ latch_ = 2
    /\ threads[2].pc = "set_flag"
    /\ threads[1].pc = "idle"
    /\ evictable_size_ # Cardinality(EvictableFrames)
    /\ Cardinality(Tracked) = 2

====
